---- MODULE Spec2Model ----
(***************************************************************************)
(* Irrigation decision engine (manuex-master): weather.py (DataPoint,      *)
(* Forecast, WeatherAPI), controller.py (Controller.make_decision) and the *)
(* Flask handlers of app.py.                                               *)
(*                                                                         *)
(* Numbers.  Temperatures are whole degrees Celsius, rainfall is counted   *)
(* in hundredths of a millimetre, so the code's 0.45 is 45 here.           *)
(* Python values whose type varies at run time are tagged records          *)
(* [k |-> "num" | "str" | "dict" | "bytes", v |-> ...].                    *)
(* A call's outcome is [kind |-> "ok", ...] or [kind |-> "raise", exc].    *)
(***************************************************************************)
EXTENDS Integers, Sequences, FiniteSets, TLC

VARIABLES
    weather_data,     \* app.py weather_data: [current, forecast] held by WeatherAPI
    threshold,        \* app.py global threshold
    water_amount,     \* app.py global water_amount
    location,         \* app.py global location
    sensor_moisture,  \* app.py global sensor_moisture
    req,              \* per worker thread: the request being handled and its position
    fetches,          \* number of provider fetches made so far (stamps the responses)
    json,             \* a provider forecast response handed to Forecast(json)
    built,            \* outcome of Forecast(json)
    args,             \* arguments of a Controller.make_decision call
    ret               \* outcome of that call

vars == <<weather_data, threshold, water_amount, location, sensor_moisture,
          req, fetches, json, built, args, ret>>

appVars == <<weather_data, threshold, water_amount, location, sensor_moisture,
             req, fetches>>

(***************************************************************************)
(* Bounds                                                                  *)
(***************************************************************************)
MaxLen == 2        \* longest forecast handed to make_decision directly
MaxRecs == 2       \* longest "list" of a provider response handed to Forecast
MaxFetches == 2    \* provider fetches after start-up
NumThreads == 2    \* concurrent request handlers

(***************************************************************************)
(* Python values                                                           *)
(***************************************************************************)
Num(n) == [k |-> "num", v |-> n]
Str(s) == [k |-> "str", v |-> s]
Bytes(cs) == [k |-> "bytes", v |-> cs]
EmptyDict == [k |-> "dict", v |-> 0]
EmptyJson == <<>>

Ok(x) == [kind |-> "ok", val |-> x]
Raise(e) == [kind |-> "raise", exc |-> e]
None == [kind |-> "none"]

\* bool(x) for the values a rain field can hold: {} and 0 are falsy
Truthy(x) == x.k = "num" /\ x.v # 0

\* a != b on tagged values (values of different types are unequal)
PyNe(a, b) == IF a.k = b.k THEN a.v # b.v ELSE TRUE

HasKey(d, key) == key \in DOMAIN d

\* d.get(key, default)
Get(d, key, default) == IF HasKey(d, key) THEN d[key] ELSE default

(***************************************************************************)
(* weather.py: DataPoint                                                   *)
(***************************************************************************)
\* datetime.fromtimestamp(ts)
FromTimestamp(ts) == [epoch |-> ts]

RainGetZero(record, key) ==
    LET rain == Get(record, "rain", EmptyJson)
    IN IF HasKey(rain, key) THEN Num(rain[key]) ELSE Num(0)

\* json.get('rain', {}).get(key, {})
RainGet(record, key) ==
    LET rain == Get(record, "rain", EmptyJson)
    IN IF HasKey(rain, key) THEN Num(rain[key]) ELSE EmptyDict

\* json.get('name', {})
NameGet(record) ==
    IF HasKey(record, "name") THEN Str(record["name"]) ELSE EmptyDict

DataPointLenient(record) ==
    LET main == Get(record, "main", EmptyJson)
        weather == Get(record, "weather", <<>>)
        w == IF Len(weather) = 0 THEN EmptyJson ELSE weather[1]
    IN Ok([dt |-> FromTimestamp(Get(record, "dt", 0)),
           temp |-> Get(main, "temp", 0),
           humidity |-> Get(main, "humidity", 0),
           id |-> Get(w, "id", 0),
           description |-> Get(w, "description", ""),
           icon |-> Get(w, "icon", ""),
           city_name |-> NameGet(record),
           rain_last_hour |-> RainGet(record, "1h"),
           rain_three_hours |-> RainGet(record, "3h")])

\* DataPoint(json): the attributes are evaluated in source order, the first
\* failing subscript raises
DataPoint(record) ==
    LET main == Get(record, "main", EmptyJson)
        weather == Get(record, "weather", <<>>)
    IN IF ~HasKey(record, "dt") THEN Raise("KeyError")
       ELSE IF ~HasKey(main, "temp") THEN Raise("KeyError")
       ELSE IF ~HasKey(main, "humidity") THEN Raise("KeyError")
       ELSE IF Len(weather) = 0 THEN Raise("IndexError")
       ELSE IF ~HasKey(weather[1], "id") THEN Raise("KeyError")
       ELSE IF ~HasKey(weather[1], "description") THEN Raise("KeyError")
       ELSE IF ~HasKey(weather[1], "icon") THEN Raise("KeyError")
       ELSE Ok([dt |-> FromTimestamp(record["dt"]),
                temp |-> main["temp"],
                humidity |-> main["humidity"],
                id |-> weather[1]["id"],
                description |-> weather[1]["description"],
                icon |-> weather[1]["icon"],
                city_name |-> NameGet(record),
                rain_last_hour |-> RainGet(record, "1h"),
                rain_three_hours |-> RainGet(record, "3h")])

(***************************************************************************)
(* weather.py: Forecast                                                    *)
(***************************************************************************)
\* [DataPoint(i) for i in lst]: stops at the first element that raises
RECURSIVE BuildPoints(_, _)
BuildPoints(lst, done) ==
    IF lst = <<>> THEN Ok(done)
    ELSE LET p == DataPoint(Head(lst))
         IN IF p.kind = "raise" THEN p
            ELSE BuildPoints(Tail(lst), Append(done, p.val))

\* Forecast(json)
Forecast(response) ==
    IF ~HasKey(response, "list") THEN Raise("KeyError")
    ELSE LET pts == BuildPoints(response["list"], <<>>)
         IN IF pts.kind = "raise" THEN pts
            ELSE Ok([data |-> pts.val])

(***************************************************************************)
(* controller.py: Controller.make_decision                                 *)
(***************************************************************************)
StepHours == 3
MinLookahead == 3
MaxLookahead == 120
RainNeed == 45
HotTemp == 30
MoistCap == 60
MaxTempStartAboveHot == HotTemp + 1
MaxTempStart == 0
MaxHumidityStart == 0

LookaheadValidInclusive(lookahead_hours) ==
    MinLookahead <= lookahead_hours /\ lookahead_hours <= MaxLookahead

\* assert 3 <= lookahead_hours < 120
LookaheadValid(lookahead_hours) ==
    MinLookahead <= lookahead_hours /\ lookahead_hours < MaxLookahead

\* lookahead_hours // 3 (floor division)
TimeSteps(lookahead_hours) == lookahead_hours \div StepHours

Min2(a, b) == IF a < b THEN a ELSE b
Max2(a, b) == IF a > b THEN a ELSE b

SliceExact(s, n) ==
    IF n >= 0 /\ n <= Len(s) THEN SubSeq(s, 1, n) ELSE <<>>

\* s[:n]
Slice(s, n) ==
    IF n >= 0 THEN SubSeq(s, 1, Min2(n, Len(s)))
    ELSE SubSeq(s, 1, Max2(Len(s) + n, 0))

AddRainAlways(total, time_step) ==
    IF time_step.rain_three_hours.k = "num"
    THEN Ok(total + time_step.rain_three_hours.v)
    ELSE Raise("TypeError")

\* if time_step.rain_three_hours: total_rainfall += time_step.rain_three_hours
AddRain(total, time_step) ==
    IF Truthy(time_step.rain_three_hours)
    THEN Ok(total + time_step.rain_three_hours.v)
    ELSE Ok(total)

\* the accumulation loop over forecast.data[:lookahead_time_steps]
RECURSIVE Accumulate(_, _)
Accumulate(steps, acc) ==
    IF steps = <<>> THEN acc
    ELSE LET time_step == Head(steps)
             rain == AddRain(acc.total_rainfall, time_step)
         IN IF rain.kind = "raise" THEN rain
            ELSE Accumulate(Tail(steps),
                   [kind |-> "ok",
                    total_rainfall |-> rain.val,
                    max_temp |-> IF time_step.temp > acc.max_temp
                                 THEN time_step.temp ELSE acc.max_temp,
                    max_humidity |-> IF time_step.humidity > acc.max_humidity
                                     THEN time_step.humidity ELSE acc.max_humidity])

DecideDryInclusive(total_rainfall, lookahead_time_steps) ==
    total_rainfall <= RainNeed * lookahead_time_steps

\* total_rainfall < 0.45 * lookahead_time_steps
DecideDry(total_rainfall, lookahead_time_steps) ==
    total_rainfall < RainNeed * lookahead_time_steps

DecideMoistNoCap(sensor_moisture_, acc, lookahead_time_steps) ==
    /\ acc.max_temp > HotTemp
    /\ acc.total_rainfall < RainNeed * lookahead_time_steps

\* the else branch: max_temp > 30, then rainfall and sensor_moisture < 60
DecideMoist(sensor_moisture_, acc, lookahead_time_steps) ==
    /\ acc.max_temp > HotTemp
    /\ acc.total_rainfall < RainNeed * lookahead_time_steps
    /\ sensor_moisture_ < MoistCap

\* Controller.make_decision; the outcome carries the locals at return
make_decision(forecast, sensor_moisture_, moisture_treshlod, lookahead_hours) ==
    IF ~LookaheadValid(lookahead_hours) THEN Raise("AssertionError")
    ELSE
      LET lookahead_time_steps == TimeSteps(lookahead_hours)
          acc == Accumulate(Slice(forecast.data, lookahead_time_steps),
                            [kind |-> "ok",
                             total_rainfall |-> 0,
                             max_temp |-> MaxTempStart,
                             max_humidity |-> MaxHumidityStart])
      IN IF acc.kind = "raise" THEN acc
         ELSE IF moisture_treshlod.k # "num" THEN Raise("TypeError")
         ELSE [kind |-> "ok",
               val |-> IF sensor_moisture_ < moisture_treshlod.v
                       THEN DecideDry(acc.total_rainfall, lookahead_time_steps)
                       ELSE DecideMoist(sensor_moisture_, acc, lookahead_time_steps),
               lookahead_time_steps |-> lookahead_time_steps,
               total_rainfall |-> acc.total_rainfall,
               max_temp |-> acc.max_temp,
               max_humidity |-> acc.max_humidity]

(***************************************************************************)
(* Provider records (OpenWeatherMap JSON)                                  *)
(***************************************************************************)
Without(d, key) == [x \in DOMAIN d \ {key} |-> d[x]]

WeatherEntry ==
    ("id" :> 800) @@ ("description" :> "clear sky") @@ ("icon" :> "01d")

\* one observation record without a "rain" object
Rec(ts, temp, humidity) ==
    ("dt" :> ts) @@ ("main" :> (("temp" :> temp) @@ ("humidity" :> humidity)))
    @@ ("weather" :> <<WeatherEntry>>)

\* rain objects a record can carry; <<>> is a "rain" object without sub-fields
RainObjects ==
    {EmptyJson, ("1h" :> 5), ("3h" :> 0), ("3h" :> 45), ("3h" :> 100),
     ("1h" :> 5) @@ ("3h" :> 45)}

WithRain(record, rain) == ("rain" :> rain) @@ record

(***************************************************************************)
(* State of the running application (after the start-up refresh of         *)
(* app.py __main__ succeeded) and the idle values of the call variables    *)
(***************************************************************************)
Threads == 1..NumThreads

Idle == [h |-> "none", pc |-> "idle"]

StartCurrent == ("cod" :> Num(200)) @@ ("name" :> "Eindhoven") @@ Rec(0, 20, 50)

StartForecast == ("cod" :> Str("200")) @@ ("list" :> <<Rec(0, 20, 50), Rec(0, 20, 50)>>)

AppStart ==
    /\ weather_data = [current |-> DataPoint(StartCurrent).val,
                       forecast |-> Forecast(StartForecast).val]
    /\ threshold = Num(45)
    /\ water_amount = Num(50)
    /\ location = Str("Eindhoven")
    /\ sensor_moisture = Num(0)
    /\ req = [t \in Threads |-> Idle]
    /\ fetches = 0

(***************************************************************************)
(* SpecEval: Controller.make_decision applied to bounded inputs            *)
(***************************************************************************)
EvalTemps == {-5, 30, 32}
EvalHumidities == {40, 80}
EvalRecords ==
    {Rec(1, t, h) : t \in EvalTemps, h \in EvalHumidities}
    \cup {WithRain(Rec(1, t, h), r) : t \in EvalTemps, h \in EvalHumidities,
                                     r \in {("3h" :> 0), ("3h" :> 45), ("3h" :> 100)}}
EvalPoints == {DataPoint(r).val : r \in EvalRecords}
EvalForecasts ==
    {[data |-> d] : d \in UNION {[1..n -> EvalPoints] : n \in 0..MaxLen}}
EvalMoistures == {30, 50, 65}
EvalThresholds == {Num(45), Num(70)}
EvalHours == {-3, 0, 2, 3, 5, 6, 9, 119, 120, 121}

InitEval ==
    /\ AppStart
    /\ json = EmptyJson
    /\ built = None
    /\ args \in [forecast : EvalForecasts,
                 sensor_moisture : EvalMoistures,
                 moisture_treshlod : EvalThresholds,
                 lookahead_hours : EvalHours]
    /\ ret = None

\* a caller invokes Controller.make_decision(forecast, moisture, threshold, hours)
MakeDecisionCall ==
    /\ ret = None
    /\ args # None
    /\ ret' = make_decision(args.forecast, args.sensor_moisture,
                            args.moisture_treshlod, args.lookahead_hours)
    /\ UNCHANGED <<appVars, json, built, args>>

NextEval == MakeDecisionCall

SpecEval == InitEval /\ [][NextEval]_vars

(***************************************************************************)
(* Reference definitions for the decision rule, computed from the call's   *)
(* arguments over index sets                                               *)
(***************************************************************************)
RECURSIVE SumOver(_, _)
SumOver(f, idx) ==
    IF idx = {} THEN 0
    ELSE LET i == CHOOSE x \in idx : TRUE
         IN f[i] + SumOver(f, idx \ {i})

SetMax(S) == CHOOSE m \in S : \A x \in S : x <= m

\* the requested step count and the indices of the entries it covers
RequestedSteps(a) == a.lookahead_hours \div 3
Considered(a) ==
    {i \in 1..Len(a.forecast.data) : i <= RequestedSteps(a)}

\* rainfall an entry reports, nothing when the value is absent
ReportedRain(p) ==
    IF p.rain_three_hours.k = "num" THEN p.rain_three_hours.v ELSE 0

RefTotalRainfall(a, idx) ==
    SumOver([i \in idx |-> ReportedRain(a.forecast.data[i])], idx)

RefMaxTempFromZero(a, idx) ==
    SetMax({0} \cup {a.forecast.data[i].temp : i \in idx})

RefTrueMaxTemp(a, idx) ==
    SetMax({a.forecast.data[i].temp : i \in idx})

InRange(a) == 3 <= a.lookahead_hours /\ a.lookahead_hours < 120

IsDry(a) == a.sensor_moisture < a.moisture_treshlod.v

EnoughRainMissing(a) ==
    RefTotalRainfall(a, Considered(a)) < 45 * RequestedSteps(a)

\* C3: with dry soil (soilMoisture < moistureThreshold) and a lookahead in
\* [3,120), the call returns, and it returns true exactly when the rainfall
\* summed over the first steps entries is below 0.45 * steps; temperature and
\* humidity do not enter.
Thm_C3_DrySoilRule ==
    (ret # None /\ InRange(args) /\ IsDry(args)) =>
        /\ ret.kind = "ok"
        /\ ret.val = EnoughRainMissing(args)

\* dry soil, two steps requested, 0.45 + 0.45 forecast: exactly the need, no watering
Wit_C3_DrySoilRule ==
    /\ ret.kind = "ok"
    /\ IsDry(args)
    /\ args.lookahead_hours = 6
    /\ RefTotalRainfall(args, Considered(args)) = 90
    /\ ret.val = FALSE

\* C4: with soil at or above the threshold and a lookahead in [3,120), the
\* call returns true exactly when maxTemp > 30, the rainfall is below
\* 0.45 * steps and soilMoisture < 60; so it is false whenever soilMoisture >= 60.
Thm_C4_MoistSoilRule ==
    (ret # None /\ InRange(args) /\ ~IsDry(args)) =>
        /\ ret.kind = "ok"
        /\ ret.val = (/\ RefMaxTempFromZero(args, Considered(args)) > 30
                      /\ EnoughRainMissing(args)
                      /\ args.sensor_moisture < 60)
        /\ (args.sensor_moisture >= 60 => ret.val = FALSE)

\* moist soil at 65, hot and dry forecast: refused by the < 60 guard
Wit_C4_MoistSoilRule ==
    /\ ret.kind = "ok"
    /\ ~IsDry(args)
    /\ args.sensor_moisture = 65
    /\ RefMaxTempFromZero(args, Considered(args)) = 32
    /\ EnoughRainMissing(args)
    /\ ret.val = FALSE

\* C5: the call fails with the parameter error (the assert's AssertionError)
\* and returns no decision exactly when lookaheadHours is outside [3,120).
Thm_C5_LookaheadRange ==
    ret # None =>
        ((args.lookahead_hours < 3 \/ args.lookahead_hours >= 120)
            <=> ret = Raise("AssertionError"))

\* the upper end of the range is excluded
Wit_C5_LookaheadRange ==
    /\ args.lookahead_hours = 120
    /\ ret = Raise("AssertionError")

AllEntries(a) == 1..Len(a.forecast.data)

\* C6: when the forecast holds fewer entries than the requested steps, the
\* call returns a boolean, its accumulators cover every available entry, and
\* the rainfall is compared with 0.45 * the requested steps.
Thm_C6_ShortForecast ==
    (ret # None /\ InRange(args)
       /\ Len(args.forecast.data) < RequestedSteps(args)) =>
        /\ ret.kind = "ok"
        /\ ret.val \in BOOLEAN
        /\ ret.total_rainfall = RefTotalRainfall(args, AllEntries(args))
        /\ ret.max_temp = RefMaxTempFromZero(args, AllEntries(args))
        /\ ret.max_humidity =
              SetMax({0} \cup {args.forecast.data[i].humidity : i \in AllEntries(args)})
        /\ IsDry(args) =>
              (ret.val <=> ret.total_rainfall < 45 * RequestedSteps(args))
        /\ ~IsDry(args) =>
              (ret.val => ret.total_rainfall < 45 * RequestedSteps(args))

\* one entry with 0.45 of rain, two steps requested: watering, because the
\* bound is 0.90 and not 0.45
Wit_C6_ShortForecast ==
    /\ ret.kind = "ok"
    /\ Len(args.forecast.data) = 1
    /\ args.lookahead_hours = 6
    /\ IsDry(args)
    /\ ret.total_rainfall = 45
    /\ ret.val = TRUE

\* the decision rule evaluated with the true maximum temperature of the
\* considered entries; humidity is not an input
RefDecisionTrueMax(a) ==
    IF IsDry(a) THEN EnoughRainMissing(a)
    ELSE /\ RefTrueMaxTemp(a, Considered(a)) > 30
         /\ EnoughRainMissing(a)
         /\ a.sensor_moisture < 60

\* C10: whenever at least one entry is considered, the decision equals the
\* decision of the rule evaluated with the true maximum temperature (and
\* without any humidity input), also when every temperature is negative.
Thm_C10_MaxTempStart ==
    (ret.kind = "ok" /\ Considered(args) # {}) =>
        ret.val = RefDecisionTrueMax(args)

\* every considered temperature is negative, the accumulator reports 0
Wit_C10_MaxTempStart ==
    /\ ret.kind = "ok"
    /\ ~IsDry(args)
    /\ Considered(args) # {}
    /\ RefTrueMaxTemp(args, Considered(args)) < 0
    /\ ret.max_temp = 0

(***************************************************************************)
(* SpecBuild: Forecast(json) applied to bounded provider responses, the    *)
(* built forecast then handed to Controller.make_decision                  *)
(***************************************************************************)
BaseRecord == WithRain(Rec(1, 32, 50), ("3h" :> 45))

WithoutMain(record, key) ==
    ("main" :> Without(record["main"], key)) @@ Without(record, "main")

WithoutWeather(record, key) ==
    ("weather" :> <<Without(record["weather"][1], key)>>) @@ Without(record, "weather")

\* records lacking one required field
DefectiveRecords ==
    {Without(BaseRecord, "dt"), Without(BaseRecord, "main"),
     Without(BaseRecord, "weather"),
     WithoutMain(BaseRecord, "temp"), WithoutMain(BaseRecord, "humidity"),
     ("weather" :> <<>>) @@ Without(BaseRecord, "weather"),
     WithoutWeather(BaseRecord, "id"), WithoutWeather(BaseRecord, "description"),
     WithoutWeather(BaseRecord, "icon")}

WellFormedRecords ==
    LET plain == {Rec(1, 32, 50)} \cup {WithRain(Rec(1, 32, 50), r) : r \in RainObjects}
    IN plain \cup {("name" :> "Eindhoven") @@ r : r \in plain}

BuildRecords == WellFormedRecords \cup DefectiveRecords

BuildResponses ==
    {("cod" :> Str("200"))}
    \cup {("cod" :> Str("200")) @@ ("list" :> lst) :
             lst \in UNION {[1..n -> BuildRecords] : n \in 0..MaxRecs}}

BuildMoistures == {30, 50}
BuildHours == {3, 6}

InitBuild ==
    /\ AppStart
    /\ json \in BuildResponses
    /\ built = None
    /\ args = None
    /\ ret = None

\* Forecast(json) is constructed
BuildForecast ==
    /\ built = None
    /\ built' = Forecast(json)
    /\ UNCHANGED <<appVars, json, args, ret>>

\* the constructed forecast becomes the first argument of a decision call
PassForecast ==
    /\ built.kind = "ok"
    /\ args = None
    /\ args' \in [forecast : {built.val},
                  sensor_moisture : BuildMoistures,
                  moisture_treshlod : {Num(45)},
                  lookahead_hours : BuildHours]
    /\ UNCHANGED <<appVars, json, built, ret>>

NextBuild == BuildForecast \/ PassForecast \/ MakeDecisionCall

SpecBuild == InitBuild /\ [][NextBuild]_vars

\* the value a record reports under rain/3h, if any
Has3h(record) == "rain" \in DOMAIN record /\ "3h" \in DOMAIN record["rain"]

JsonRain(record) == IF Has3h(record) THEN record["rain"]["3h"] ELSE 0

\* C7: a record without a "rain" object, or whose rain object has no "3h",
\* yields a DataPoint whose rain_three_hours is an absent value that is not
\* the number zero; a numeric "3h", zero included, is kept as it is; and the
\* decision call never fails on absent entries: its total rainfall is the
\* sum of the values present in the considered records.
Thm_C7_AbsentRain ==
    /\ built.kind = "ok" =>
          \A i \in 1..Len(json["list"]) :
             LET record == json["list"][i]
                 point == built.val.data[i]
             IN IF Has3h(record)
                THEN point.rain_three_hours = Num(record["rain"]["3h"])
                ELSE /\ point.rain_three_hours = EmptyDict
                     /\ point.rain_three_hours.k # "num"
    /\ ret # None =>
          /\ ret.kind = "ok"
          /\ ret.total_rainfall =
                SumOver([i \in Considered(args) |-> JsonRain(json["list"][i])],
                        Considered(args))

\* two considered records, one without rain and one reporting 0.45
Wit_C7_AbsentRain ==
    /\ ret.kind = "ok"
    /\ args.lookahead_hours = 6
    /\ Len(json["list"]) = 2
    /\ "rain" \notin DOMAIN json["list"][1]
    /\ Has3h(json["list"][2])
    /\ ret.total_rainfall = 45

\* a required field of a record is missing
MissingRequired(record) ==
    \/ "dt" \notin DOMAIN record
    \/ "main" \notin DOMAIN record
    \/ "weather" \notin DOMAIN record
    \/ ("main" \in DOMAIN record /\ "temp" \notin DOMAIN record["main"])
    \/ ("main" \in DOMAIN record /\ "humidity" \notin DOMAIN record["main"])
    \/ ("weather" \in DOMAIN record /\ Len(record["weather"]) = 0)
    \/ ("weather" \in DOMAIN record /\ Len(record["weather"]) > 0
          /\ {"id", "description", "icon"} \ DOMAIN record["weather"][1] # {})

\* the exceptions a missing key or list element raises
DataFormatErrors == {"KeyError", "IndexError"}

ListLen == 2       \* entries of a provider forecast (cnt)

Digits == {"0", "1", "2", "3", "4", "5", "6", "7", "8", "9"}

DigitVal(c) ==
    CASE c = "0" -> 0 [] c = "1" -> 1 [] c = "2" -> 2 [] c = "3" -> 3
      [] c = "4" -> 4 [] c = "5" -> 5 [] c = "6" -> 6 [] c = "7" -> 7
      [] c = "8" -> 8 [] c = "9" -> 9

RECURSIVE DigitsValue(_, _)
DigitsValue(cs, acc) ==
    IF cs = <<>> THEN acc
    ELSE DigitsValue(Tail(cs), 10 * acc + DigitVal(Head(cs)))

\* int(body.decode("utf-8")) for bodies of plain characters: a non-empty run
\* of decimal digits is its value, anything else raises ValueError
ParseInt(body) ==
    IF body.v # <<>> /\ \A i \in 1..Len(body.v) : body.v[i] \in Digits
    THEN Ok(DigitsValue(body.v, 0))
    ELSE Raise("ValueError")

\* provider responses to the fetch stamped n (dt carries the stamp)
CurrentOk(n) == ("cod" :> Num(200)) @@ ("name" :> "Eindhoven") @@ Rec(n, 32, 50)
CurrentNoMain(n) == Without(CurrentOk(n), "main")
CurrentNoCod(n) == Without(CurrentOk(n), "cod")
NotFound == ("cod" :> Str("404")) @@ ("message" :> "city not found")

ForecastOk(n) ==
    ("cod" :> Str("200")) @@ ("list" :> [i \in 1..ListLen |-> Rec(n, 32, 50)])
ForecastNoList(n) == ("cod" :> Str("200"))
ForecastBadEntry(n) ==
    ("cod" :> Str("200"))
    @@ ("list" :> [i \in 1..ListLen |->
                      IF i = ListLen THEN Without(Rec(n, 32, 50), "weather")
                      ELSE Rec(n, 32, 50)])

\* pairs <<current response, forecast response>> a fetch can receive
Responses(n) ==
    {<<CurrentOk(n), ForecastOk(n)>>,
     <<CurrentOk(n), ForecastNoList(n)>>,
     <<CurrentOk(n), ForecastBadEntry(n)>>,
     <<CurrentNoMain(n), ForecastOk(n)>>,
     <<CurrentNoCod(n), ForecastOk(n)>>,
     <<NotFound, ForecastOk(n)>>,
     <<CurrentOk(n), NotFound>>,
     <<EmptyJson, ForecastOk(n)>>,
     <<CurrentOk(n), EmptyJson>>}

\* requests.get failing: connection refused, or the 5 s timeout
FetchErrors == {"requests.ConnectionError", "requests.ReadTimeout"}

\* the validity test of get_weather, evaluated left to right
CheckResponses(current_json, forecast_json) ==
    IF DOMAIN current_json = {} \/ DOMAIN forecast_json = {} THEN Raise("ValueError")
    ELSE IF ~HasKey(current_json, "cod") THEN Raise("KeyError")
    ELSE IF PyNe(current_json["cod"], Num(200)) THEN Raise("ValueError")
    ELSE IF ~HasKey(forecast_json, "cod") THEN Raise("KeyError")
    ELSE IF PyNe(forecast_json["cod"], Str("200")) THEN Raise("ValueError")
    ELSE Ok(TRUE)

Bodies == {<<"3", "0">>, <<"5", "0">>, <<"x">>}
Forms ==
    {[location |-> "Eindhoven", threshold |-> "40", water_amount |-> "50"],
     [location |-> "Paris", threshold |-> "70", water_amount |-> "50"]}

\* except (ValueError, ConnectionError) of index and forecast: the builtin
\* ConnectionError, which requests' exceptions do not derive from
Caught == {"ValueError", "ConnectionError"}

Init ==
    /\ AppStart
    /\ json = EmptyJson
    /\ built = None
    /\ args = None
    /\ ret = None

callVars == <<json, built, args, ret>>
globalVars == <<threshold, water_amount, location, sensor_moisture>>

Set(t, r) == req' = [req EXCEPT ![t] = r]

\* GET / and GET /forecast: the handler enters weather_data.update(location)
StartPage(t, h) ==
    /\ req[t].pc = "idle"
    /\ Set(t, [h |-> h, pc |-> "fetch", pre |-> weather_data])
    /\ UNCHANGED <<weather_data, globalVars, fetches, callVars>>

\* POST /base: store the raw body, parse it, enter weather_data.update
StartDisplay(t, body) ==
    /\ req[t].pc = "idle"
    /\ sensor_moisture' = Bytes(body)
    /\ LET parsed == ParseInt(Bytes(body))
       IN IF parsed.kind = "raise"
          THEN Set(t, [h |-> "display", pc |-> "done", refresh |-> "none",
                       resp |-> parsed])
          ELSE Set(t, [h |-> "display", pc |-> "fetch", pre |-> weather_data,
                       moisture_value |-> parsed.val])
    /\ UNCHANGED <<weather_data, threshold, water_amount, location, fetches, callVars>>

\* how a handler leaves a failed update: index and forecast render the error
\* page for the exceptions they catch, anything else is an unhandled error
Failed(t, exc) ==
    Set(t, [h |-> req[t].h, pc |-> "done", refresh |-> "failed",
            pre |-> req[t].pre,
            resp |-> IF req[t].h \in {"index", "forecast"} /\ exc \in Caught
                     THEN Ok([page |-> "error.html", error |-> exc])
                     ELSE Raise(exc)])

\* get_weather: the two requests.get calls and the validity test
Fetch(t) ==
    /\ req[t].pc = "fetch"
    /\ fetches < MaxFetches
    /\ fetches' = fetches + 1
    /\ \/ \E e \in FetchErrors : Failed(t, e)
       \/ \E r \in Responses(fetches + 1) :
             LET chk == CheckResponses(r[1], r[2])
             IN IF chk.kind = "raise" THEN Failed(t, chk.exc)
                ELSE Set(t, [req[t] EXCEPT !.pc = "assign_current"]
                            @@ [current_json |-> r[1], forecast_json |-> r[2],
                                stamp |-> fetches + 1])
    /\ UNCHANGED <<weather_data, globalVars, callVars>>

\* self.current = DataPoint(current_json)
AssignCurrent(t) ==
    /\ req[t].pc = "assign_current"
    /\ LET point == DataPoint(req[t].current_json)
       IN IF point.kind = "raise"
          THEN Failed(t, point.exc) /\ UNCHANGED weather_data
          ELSE /\ weather_data' = [weather_data EXCEPT !.current = point.val]
               /\ Set(t, [req[t] EXCEPT !.pc = "assign_forecast"])
    /\ UNCHANGED <<globalVars, fetches, callVars>>

\* self.forecast = Forecast(forecast_json)
AssignForecast(t) ==
    /\ req[t].pc = "assign_forecast"
    /\ LET fc == Forecast(req[t].forecast_json)
       IN IF fc.kind = "raise"
          THEN Failed(t, fc.exc) /\ UNCHANGED weather_data
          ELSE /\ weather_data' = [weather_data EXCEPT !.forecast = fc.val]
               /\ Set(t, [h |-> req[t].h, pc |-> "updated", pre |-> req[t].pre,
                          stamp |-> req[t].stamp]
                         @@ IF req[t].h = "display"
                            THEN [moisture_value |-> req[t].moisture_value]
                            ELSE <<>>)
    /\ UNCHANGED <<globalVars, fetches, callVars>>

\* render_template(..., data=weather_data, ...) of index and forecast: the
\* page reads the held current weather and forecast
Render(t) ==
    /\ req[t].pc = "updated"
    /\ req[t].h \in {"index", "forecast"}
    /\ Set(t, [h |-> req[t].h, pc |-> "done", refresh |-> "ok",
               pre |-> req[t].pre, stamp |-> req[t].stamp,
               resp |-> Ok([page |-> req[t].h,
                            current |-> weather_data.current,
                            forecast |-> weather_data.forecast])])
    /\ UNCHANGED <<weather_data, globalVars, fetches, callVars>>

\* str(Controller.make_decision(weather_data.forecast, moisture_value, threshold))
Decide(t) ==
    /\ req[t].pc = "updated"
    /\ req[t].h = "display"
    /\ LET d == make_decision(weather_data.forecast, req[t].moisture_value,
                              threshold, 3)
       IN Set(t, [h |-> "display", pc |-> "done", refresh |-> "ok",
                  pre |-> req[t].pre, stamp |-> req[t].stamp,
                  passed |-> threshold,
                  resp |-> IF d.kind = "raise" THEN d
                           ELSE Ok(Str(IF d.val THEN "True" ELSE "False"))])
    /\ UNCHANGED <<weather_data, globalVars, fetches, callVars>>

\* POST /settings: the three globals take the submitted form strings
SettingsPost(t, form) ==
    /\ req[t].pc = "idle"
    /\ location' = Str(form.location)
    /\ threshold' = Str(form.threshold)
    /\ water_amount' = Str(form.water_amount)
    /\ Set(t, [h |-> "settings", pc |-> "done", refresh |-> "none",
               resp |-> Ok([page |-> "settings.html",
                            threshold |-> Str(form.threshold)])])
    /\ UNCHANGED <<weather_data, sensor_moisture, fetches, callVars>>

\* GET /settings
SettingsGet(t) ==
    /\ req[t].pc = "idle"
    /\ Set(t, [h |-> "settings", pc |-> "done", refresh |-> "none",
               resp |-> Ok([page |-> "settings.html", threshold |-> threshold])])
    /\ UNCHANGED <<weather_data, globalVars, fetches, callVars>>

\* GET /override
Override(t) ==
    /\ req[t].pc = "idle"
    /\ Set(t, [h |-> "override", pc |-> "done", refresh |-> "none",
               resp |-> Ok([page |-> "override.html"])])
    /\ UNCHANGED <<weather_data, globalVars, fetches, callVars>>

\* the response is sent, the worker is free again
Respond(t) ==
    /\ req[t].pc = "done"
    /\ Set(t, Idle)
    /\ UNCHANGED <<weather_data, globalVars, fetches, callVars>>

Step(t) ==
    \/ \E h \in {"index", "forecast"} : StartPage(t, h)
    \/ \E body \in Bodies : StartDisplay(t, body)
    \/ Fetch(t)
    \/ AssignCurrent(t)
    \/ AssignForecast(t)
    \/ Render(t)
    \/ Decide(t)
    \/ \E form \in Forms : SettingsPost(t, form)
    \/ SettingsGet(t)
    \/ Override(t)
    \/ Respond(t)

Next == \E t \in Threads : Step(t)

Spec == Init /\ [][Next]_vars

\* one request at a time (a single worker)
NextSeq == Step(1)

SpecSeq == Init /\ [][NextSeq]_vars

(***************************************************************************)
(* Properties of the held weather state and of the handlers                *)
(***************************************************************************)
\* the fetch a held value comes from
CurrentStamp(point) == point.dt.epoch
ForecastStamps(fc) == {fc.data[i].dt.epoch : i \in 1..Len(fc.data)}

\* C1: refresh is all-or-nothing: when a refresh has failed, the held current
\* DataPoint and the held Forecast are what they were when the refresh
\* began; when it has succeeded, both come from that refresh.
Cex_C1_RefreshAllOrNothing ==
    \A t \in Threads :
        req[t].pc = "done" =>
            /\ req[t].refresh = "failed" => weather_data = req[t].pre
            /\ req[t].refresh = "ok" =>
                  /\ CurrentStamp(weather_data.current) = req[t].stamp
                  /\ ForecastStamps(weather_data.forecast) = {req[t].stamp}

\* C2: no reader observes a current DataPoint and a Forecast that come from
\* two different refreshes: every rendered page shows a current reading and
\* forecast entries of one and the same fetch.
Cex_C2_AtomicSwap ==
    \A t \in Threads :
        (/\ req[t].pc = "done"
         /\ req[t].h \in {"index", "forecast"}
         /\ req[t].refresh = "ok") =>
            ForecastStamps(req[t].resp.val.forecast)
                = {CurrentStamp(req[t].resp.val.current)}

\* C9: the threshold the display handler passes to make_decision is an
\* integer, and the handler answers with a boolean decision.
Cex_C9_ThresholdType ==
    \A t \in Threads :
        (/\ req[t].pc = "done"
         /\ req[t].h = "display"
         /\ req[t].refresh = "ok") =>
            /\ req[t].passed.k = "num"
            /\ req[t].resp \in {Ok(Str("True")), Ok(Str("False"))}

====
